---------------------------- MODULE Spec2Model ----------------------------
(***************************************************************************)
(* Model of genesis-programs/src/lib.rs: the per-cluster inflation         *)
(* schedule (get_inflation), the per-cluster program activation table      *)
(* (get_programs), the genesis filter (get_native_programs_for_genesis)    *)
(* and the closure returned by get_entered_epoch_callback, which the bank  *)
(* runs when it enters an epoch and right after a snapshot restore.        *)
(***************************************************************************)
EXTENDS Integers, Sequences, FiniteSets

(***************************************************************************)
(* Epoch is a u64.  TLC's integers are 32 bits wide, so an Epoch is kept   *)
(* as four 16-bit limbs, most significant first; Epoch::MAX = 2^64 - 1 is  *)
(* then the exact value and comparisons are the u64 comparisons.           *)
(***************************************************************************)
LimbBase == 65536

U64(n) == <<0, 0, n \div LimbBase, n % LimbBase>>

EpochMAX == <<LimbBase - 1, LimbBase - 1, LimbBase - 1, LimbBase - 1>>

GENESIS_EPOCH == U64(0)

\* a < b on u64
EpochLt(a, b) ==
    \E i \in 1..4 : a[i] < b[i] /\ \A j \in 1..(i - 1) : a[j] = b[j]

\* a >= b on u64
EpochGe(a, b) == ~EpochLt(a, b)

\* how far around each scheduled epoch the bank's epoch is explored
Margin == 1

\* every epoch that lib.rs names in a schedule or a table, Epoch::MAX apart
ScheduledEpochs == {0, 34, 44, 68, 74, 89, 400}

\* the epochs the bank is driven through: each scheduled epoch and its
\* neighbours, and the top of the u64 range
Epochs ==
    {U64(n) : n \in {m \in 0..(400 + Margin) :
                        \E b \in ScheduledEpochs : m >= b - Margin /\ m <= b + Margin}}
    \cup {<<LimbBase - 1, LimbBase - 1, LimbBase - 1, LimbBase - 1 - k>> : k \in 0..Margin}

ClusterTypes == {"Development", "Devnet", "Testnet", "MainnetBeta"}

(***************************************************************************)
(* Inflation values.  Inflation::default() and Inflation::new_disabled()   *)
(* are the two the schedule produces; "custom" stands for a policy the     *)
(* bank got from its genesis config and that equals neither.               *)
(***************************************************************************)
InflationDefault == "default"

InflationDisabled == "new_disabled"

InflationCustom == "custom"

Inflations == {InflationDefault, InflationDisabled, InflationCustom}

None == [some |-> FALSE]

Some(v) == [some |-> TRUE, value |-> v]

\* get_inflation with the Testnet breakpoint of epoch 44 mistyped as 54
get_inflation_typo(cluster_type, epoch) ==
    CASE cluster_type \in {"Development", "Devnet"} ->
            IF epoch = U64(0) THEN Some(InflationDefault) ELSE None
      [] cluster_type = "Testnet" ->
            CASE epoch = U64(0) -> Some(InflationDisabled)
              [] epoch = U64(54) -> Some(InflationDefault)
              [] epoch = U64(68) -> Some(InflationDisabled)
              [] epoch = U64(74) -> Some(InflationDefault)
              [] OTHER -> None
      [] cluster_type = "MainnetBeta" ->
            CASE epoch = U64(0) -> Some(InflationDisabled)
              [] epoch = EpochMAX -> Some(InflationDefault)
              [] OTHER -> None

\* get_inflation with the MainnetBeta placeholder Epoch::MAX written as 400
get_inflation_early(cluster_type, epoch) ==
    CASE cluster_type \in {"Development", "Devnet"} ->
            IF epoch = U64(0) THEN Some(InflationDefault) ELSE None
      [] cluster_type = "Testnet" ->
            CASE epoch = U64(0) -> Some(InflationDisabled)
              [] epoch = U64(44) -> Some(InflationDefault)
              [] epoch = U64(68) -> Some(InflationDisabled)
              [] epoch = U64(74) -> Some(InflationDefault)
              [] OTHER -> None
      [] cluster_type = "MainnetBeta" ->
            CASE epoch = U64(0) -> Some(InflationDisabled)
              [] epoch = U64(400) -> Some(InflationDefault)
              [] OTHER -> None

\* get_inflation with the Devnet arm copied from Testnet's first breakpoint
get_inflation_devnet(cluster_type, epoch) ==
    CASE cluster_type = "Development" ->
            IF epoch = U64(0) THEN Some(InflationDefault) ELSE None
      [] cluster_type = "Devnet" ->
            IF epoch = U64(0) THEN Some(InflationDisabled) ELSE None
      [] cluster_type = "Testnet" ->
            CASE epoch = U64(0) -> Some(InflationDisabled)
              [] epoch = U64(44) -> Some(InflationDefault)
              [] epoch = U64(68) -> Some(InflationDisabled)
              [] epoch = U64(74) -> Some(InflationDefault)
              [] OTHER -> None
      [] cluster_type = "MainnetBeta" ->
            CASE epoch = U64(0) -> Some(InflationDisabled)
              [] epoch = EpochMAX -> Some(InflationDefault)
              [] OTHER -> None

get_inflation(cluster_type, epoch) ==
    CASE cluster_type = "Development" ->
            IF epoch = U64(0) THEN Some(InflationDefault) ELSE None
      [] cluster_type = "Devnet" ->
            IF epoch = U64(0) THEN Some(InflationDefault) ELSE None
      [] cluster_type = "Testnet" ->
            CASE epoch = U64(0) -> Some(InflationDisabled)
              [] epoch = U64(44) -> Some(InflationDefault)
              [] epoch = U64(68) -> Some(InflationDisabled)
              [] epoch = U64(74) -> Some(InflationDefault)
              [] OTHER -> None
      [] cluster_type = "MainnetBeta" ->
            CASE epoch = U64(0) -> Some(InflationDisabled)
              [] epoch = EpochMAX -> Some(InflationDefault)
              [] OTHER -> None

(***************************************************************************)
(* enum Program and the (name, id, entrypoint) tuples the program macros   *)
(* expand to.                                                              *)
(***************************************************************************)
Native(t) == [kind |-> "Native", name |-> t.name, id |-> t.id]

BuiltinLoader(t) ==
    [kind |-> "BuiltinLoader", name |-> t.name, id |-> t.id,
     process_instruction |-> t.process_instruction]

solana_bpf_loader_program ==
    [name |-> "solana_bpf_loader_program",
     id |-> "BPFLoader2111111111111111111111111111111111",
     process_instruction |-> "solana_bpf_loader_program::process_instruction"]

solana_bpf_loader_deprecated_program ==
    [name |-> "solana_bpf_loader_deprecated_program",
     id |-> "BPFLoader1111111111111111111111111111111111",
     process_instruction |-> "solana_bpf_loader_program::process_instruction"]

solana_vest_program ==
    [name |-> "solana_vest_program",
     id |-> "Vest111111111111111111111111111111111111111"]

solana_budget_program ==
    [name |-> "solana_budget_program",
     id |-> "Budget1111111111111111111111111111111111111"]

solana_exchange_program ==
    [name |-> "solana_exchange_program",
     id |-> "Exchange11111111111111111111111111111111111"]

Entry(program, start_epoch) == [program |-> program, start_epoch |-> start_epoch]

\* the vec! of ClusterType::Development: programs used for testing, each
\* mapped to (program, GENESIS_EPOCH)
development_programs ==
    LET v == << BuiltinLoader(solana_bpf_loader_program),
                BuiltinLoader(solana_bpf_loader_deprecated_program),
                Native(solana_vest_program),
                Native(solana_budget_program),
                Native(solana_exchange_program) >>
    IN  [i \in 1..Len(v) |-> Entry(v[i], GENESIS_EPOCH)]

devnet_programs ==
    << Entry(BuiltinLoader(solana_bpf_loader_deprecated_program), GENESIS_EPOCH),
       Entry(Native(solana_vest_program), GENESIS_EPOCH),
       Entry(Native(solana_budget_program), GENESIS_EPOCH),
       Entry(Native(solana_exchange_program), GENESIS_EPOCH),
       Entry(BuiltinLoader(solana_bpf_loader_program), U64(400)) >>

testnet_programs ==
    << Entry(BuiltinLoader(solana_bpf_loader_deprecated_program), GENESIS_EPOCH),
       Entry(BuiltinLoader(solana_bpf_loader_program), U64(89)) >>

mainnet_beta_programs ==
    << Entry(BuiltinLoader(solana_bpf_loader_deprecated_program), U64(34)),
       Entry(BuiltinLoader(solana_bpf_loader_program), EpochMAX) >>

\* get_programs with the Devnet entry of epoch 400 naming the deprecated
\* loader a second time
get_programs_dup(cluster_type) ==
    CASE cluster_type = "Development" -> development_programs
      [] cluster_type = "Devnet" ->
            [devnet_programs EXCEPT
                ![5] = Entry(BuiltinLoader(solana_bpf_loader_deprecated_program), U64(400))]
      [] cluster_type = "Testnet" -> testnet_programs
      [] cluster_type = "MainnetBeta" -> mainnet_beta_programs

\* get_programs with the Devnet entry of epoch 400 written first
get_programs_unsorted(cluster_type) ==
    CASE cluster_type = "Development" -> development_programs
      [] cluster_type = "Devnet" ->
            <<devnet_programs[5]>> \o SubSeq(devnet_programs, 1, 4)
      [] cluster_type = "Testnet" -> testnet_programs
      [] cluster_type = "MainnetBeta" -> mainnet_beta_programs

\* get_programs with the exchange program left out of the Development table
get_programs_short(cluster_type) ==
    CASE cluster_type = "Development" -> SubSeq(development_programs, 1, 4)
      [] cluster_type = "Devnet" -> devnet_programs
      [] cluster_type = "Testnet" -> testnet_programs
      [] cluster_type = "MainnetBeta" -> mainnet_beta_programs

\* given cluster type, the entire table of enabled programs, in order
get_programs(cluster_type) ==
    CASE cluster_type = "Development" -> development_programs
      [] cluster_type = "Devnet" -> devnet_programs
      [] cluster_type = "Testnet" -> testnet_programs
      [] cluster_type = "MainnetBeta" -> mainnet_beta_programs

(***************************************************************************)
(* The Bank, as far as the callback touches it: its epoch, its inflation   *)
(* and the programs added to it.  Adding a program that is already there   *)
(* changes nothing.                                                        *)
(***************************************************************************)
set_inflation(b, inflation) == [b EXCEPT !.inflation = inflation]

add_native_program(b, name, program_id) ==
    [b EXCEPT !.programs = @ \cup {[kind |-> "Native", name |-> name, id |-> program_id]}]

add_builtin_loader(b, name, program_id, process_instruction_with_context) ==
    [b EXCEPT !.programs = @ \cup
        {[kind |-> "BuiltinLoader", name |-> name, id |-> program_id,
          process_instruction |-> process_instruction_with_context]}]

\* should_populate with > for >= in the initial case
should_populate_gt(initial, epoch, start_epoch) ==
    (initial /\ EpochLt(start_epoch, epoch)) \/ (~initial /\ epoch = start_epoch)

\* should_populate that catches up whatever the initial flag is
should_populate_catch_up(initial, epoch, start_epoch) ==
    EpochGe(epoch, start_epoch)

\* should_populate with the operands of >= exchanged
should_populate_swapped(initial, epoch, start_epoch) ==
    (initial /\ EpochGe(start_epoch, epoch)) \/ (~initial /\ epoch = start_epoch)

should_populate(initial, epoch, start_epoch) ==
    (initial /\ EpochGe(epoch, start_epoch)) \/ (~initial /\ epoch = start_epoch)

\* one pass of the body of the for loop, for one table entry
populate(b, entry, initial) ==
    IF should_populate(initial, b.epoch, entry.start_epoch)
    THEN IF entry.program.kind = "Native"
         THEN add_native_program(b, entry.program.name, entry.program.id)
         ELSE add_builtin_loader(b, entry.program.name, entry.program.id,
                                 entry.program.process_instruction)
    ELSE b

RECURSIVE populate_from_break(_, _, _, _)
\* the for loop leaving at the first program it adds that the bank lacked
populate_from_break(b, programs, initial, i) ==
    IF i > Len(programs) THEN b
    ELSE LET b1 == populate(b, programs[i], initial)
         IN  IF b1 # b THEN b1
             ELSE populate_from_break(b1, programs, initial, i + 1)

RECURSIVE populate_from(_, _, _, _)
\* the for loop over get_programs(cluster_type), from entry i on
populate_from(b, programs, initial, i) ==
    IF i > Len(programs) THEN b
    ELSE populate_from(populate(b, programs[i], initial), programs, initial, i + 1)

\* the closure falling back to Inflation::default() when get_inflation is None
entered_epoch_callback_reset(cluster, b, initial) ==
    LET inflation == get_inflation(cluster, b.epoch)
        b1 == set_inflation(b, IF inflation.some THEN inflation.value ELSE InflationDefault)
    IN  populate_from(b1, get_programs(cluster), initial, 1)

\* the closure restoring, on a cold start, the policy of the latest breakpoint
\* at or before the bank's epoch
entered_epoch_callback_catch_up(cluster, b, initial) ==
    LET past == {e \in Epochs : EpochGe(b.epoch, e) /\ get_inflation(cluster, e).some}
        latest == CHOOSE e \in past : \A x \in past : EpochGe(e, x)
        inflation == IF initial /\ past # {}
                     THEN get_inflation(cluster, latest)
                     ELSE get_inflation(cluster, b.epoch)
        b1 == IF inflation.some THEN set_inflation(b, inflation.value) ELSE b
    IN  populate_from(b1, get_programs(cluster), initial, 1)

\* the closure: the bank after the callback has run on bank b
entered_epoch_callback(cluster, b, initial) ==
    LET inflation == get_inflation(cluster, b.epoch)
        b1 == IF inflation.some THEN set_inflation(b, inflation.value) ELSE b
    IN  populate_from(b1, get_programs(cluster), initial, 1)

RECURSIVE native_programs_from_any_kind(_, _)
\* the loop of get_native_programs_for_genesis without the test of the kind
native_programs_from_any_kind(programs, i) ==
    IF i > Len(programs) THEN << >>
    ELSE (IF programs[i].start_epoch = GENESIS_EPOCH
          THEN << <<programs[i].program.name, programs[i].program.id>> >>
          ELSE << >>)
         \o native_programs_from_any_kind(programs, i + 1)

RECURSIVE native_programs_from(_, _)
\* the loop of get_native_programs_for_genesis, from entry i on
native_programs_from(programs, i) ==
    IF i > Len(programs) THEN << >>
    ELSE (IF programs[i].program.kind = "Native" /\ programs[i].start_epoch = GENESIS_EPOCH
          THEN << <<programs[i].program.name, programs[i].program.id>> >>
          ELSE << >>)
         \o native_programs_from(programs, i + 1)

get_native_programs_for_genesis(cluster_type) ==
    native_programs_from(get_programs(cluster_type), 1)

\* the programs of a table, as the bank holds them once added
Registered(programs) == {programs[i].program : i \in 1..Len(programs)}

VARIABLES
    cluster_type,   \* the ClusterType the closure captured
    bank,           \* [epoch, inflation, programs]
    last,           \* the latest invocation of the callback: its flag, the bank
                    \* before it and what get_inflation returned to it
    prev,           \* the flag and epoch of the invocation before that one
    run             \* what kind of run the invocations so far make up

vars == <<cluster_type, bank, last, prev, run>>

NoCall == [called |-> FALSE]

Banks(programs) ==
    [epoch : Epochs, inflation : Inflations, programs : SUBSET programs]

\* no invocation yet
NoRun == [from_genesis |-> FALSE, live_replay |-> FALSE]

\* the explored epoch that comes next after epoch e (e itself at the top)
NextEpoch(e) ==
    IF \E x \in Epochs : EpochLt(e, x)
    THEN CHOOSE x \in Epochs :
            EpochLt(e, x) /\ \A y \in Epochs : EpochLt(e, y) => EpochGe(y, x)
    ELSE e

\* a bank with no program added yet, at any epoch, under any cluster
Init ==
    /\ cluster_type \in ClusterTypes
    /\ bank \in Banks({})
    /\ last = NoCall
    /\ prev = NoCall
    /\ run = NoRun

\* a bank in any state the callback can find it in
InitAny ==
    /\ cluster_type \in ClusterTypes
    /\ bank \in Banks(Registered(get_programs(cluster_type)))
    /\ last = NoCall
    /\ prev = NoCall
    /\ run = NoRun

\* the closure runs on bank b, and the two latest invocations are remembered
Invoke(b, initial) ==
    /\ bank' = entered_epoch_callback(cluster_type, b, initial)
    /\ prev' = IF last.called
               THEN [called |-> TRUE, initial |-> last.initial, epoch |-> last.pre.epoch]
               ELSE NoCall
    /\ last' = [called |-> TRUE, initial |-> initial, pre |-> b,
                inflation |-> get_inflation(cluster_type, b.epoch)]
    \* from_genesis: the first invocation ran at epoch 0 on a bank with no
    \* program.  live_replay: moreover every invocation had initial = false,
    \* and they ran once at each explored epoch in turn, from epoch 0 on
    /\ run' = IF last.called
              THEN [run EXCEPT !.live_replay =
                        @ /\ ~initial /\ b.epoch # bank.epoch
                          /\ b.epoch = NextEpoch(bank.epoch)]
              ELSE [from_genesis |-> b.epoch = GENESIS_EPOCH /\ b.programs = {},
                    live_replay |-> b.epoch = GENESIS_EPOCH /\ b.programs = {} /\ ~initial]
    /\ UNCHANGED cluster_type

\* the runtime invokes the closure on the bank at the epoch the bank is in:
\* right after a restore, or once more within the epoch
EnteredEpochCallback(initial) ==
    Invoke(bank, initial)

\* the bank moves to a later epoch e and the runtime invokes the closure there
EnterLaterEpoch(e, initial) ==
    /\ EpochLt(bank.epoch, e)
    /\ Invoke([bank EXCEPT !.epoch = e], initial)

Next ==
    \/ \E initial \in BOOLEAN : EnteredEpochCallback(initial)
    \/ \E e \in Epochs, initial \in BOOLEAN : EnterLaterEpoch(e, initial)

Spec == Init /\ [][Next]_vars

SpecAny == InitAny /\ [][Next]_vars

(***************************************************************************)
(* Properties                                                              *)
(***************************************************************************)
\* the table of the cluster the closure captured
Table == get_programs(cluster_type)

\* the programs of the table that satisfy Test(start_epoch)
TablePrograms(Test(_)) ==
    {Table[i].program : i \in {j \in 1..Len(Table) : Test(Table[j].start_epoch)}}

\* the epoch the latest invocation ran at
LastEpoch == last.pre.epoch

\* the latest two invocations had the same arguments and ran at the same epoch
Repeated ==
    /\ last.called
    /\ prev.called
    /\ prev.initial = last.initial
    /\ prev.epoch = LastEpoch

\* C1: Idempotence. When the callback has been invoked twice in succession
\* with the same initial flag at an unchanged epoch, the bank's inflation and
\* its set of programs after the second invocation are those the first
\* invocation left (the bank the second invocation started from), whatever
\* the cluster, the epoch and the bank's state before.
C1_Idempotent ==
    Repeated =>
        /\ bank.inflation = last.pre.inflation
        /\ bank.programs = last.pre.programs

\* a repeated invocation in a case where the first one changed the bank: a
\* Devnet bank at epoch 400 that holds the bpf loader, repeated live calls
C1_Witness ==
    /\ Repeated
    /\ cluster_type = "Devnet"
    /\ ~last.initial
    /\ bank.epoch = U64(400)
    /\ BuiltinLoader(solana_bpf_loader_program) \in bank.programs
    /\ bank.inflation = InflationCustom

\* C2: Cold-start catch-up. After an invocation with initial = true at epoch
\* E on a bank that started with no program and was driven only by the
\* callback at non-decreasing epochs, every table program with
\* start_epoch <= E is in the bank and no table program with start_epoch > E
\* is.
C2_ColdStartCatchUp ==
    (last.called /\ last.initial) =>
        \A i \in 1..Len(Table) :
            (Table[i].program \in bank.programs)
                <=> EpochGe(bank.epoch, Table[i].start_epoch)

\* a cold start past the start epoch of one MainnetBeta loader and before the
\* other's, on a bank that had nothing
C2_Witness ==
    /\ last.called
    /\ last.initial
    /\ cluster_type = "MainnetBeta"
    /\ bank.epoch = U64(35)
    /\ last.pre.programs = {}
    /\ bank.programs = {BuiltinLoader(solana_bpf_loader_deprecated_program)}

\* C3: Live-transition precision. An invocation with initial = false at epoch
\* E leaves in the bank every program that was there and adds exactly the
\* table programs with start_epoch = E: the bank's programs afterwards are
\* those before together with the table programs whose start epoch is E.
C3_LivePrecision ==
    (last.called /\ ~last.initial) =>
        /\ last.pre.programs \subseteq bank.programs
        /\ bank.programs \ last.pre.programs \subseteq
               TablePrograms(LAMBDA start_epoch : start_epoch = LastEpoch)
        /\ TablePrograms(LAMBDA start_epoch : start_epoch = LastEpoch)
               \subseteq bank.programs

\* a live call at epoch 400 on a Devnet bank that held one genesis program
\* and lacked the others: the bpf loader is added, the genesis ones are not
C3_Witness ==
    /\ last.called
    /\ ~last.initial
    /\ cluster_type = "Devnet"
    /\ LastEpoch = U64(400)
    /\ last.pre.programs = {Native(solana_vest_program)}
    /\ bank.programs = {Native(solana_vest_program),
                        BuiltinLoader(solana_bpf_loader_program)}

\* C4: Lookup miss leaves the policy untouched. After an invocation (either
\* flag) at an epoch where get_inflation is None the bank's inflation is what
\* it was before the call; where it is Some(p) the bank's inflation is p,
\* whatever it was before.
C4_InflationStep ==
    last.called =>
        LET found == get_inflation(cluster_type, LastEpoch)
        IN  IF found.some
            THEN bank.inflation = found.value
            ELSE bank.inflation = last.pre.inflation

\* a lookup miss at epoch 45 that kept a policy the schedule never produces
C4_Witness ==
    /\ last.called
    /\ cluster_type = "Testnet"
    /\ LastEpoch = U64(45)
    /\ ~get_inflation(cluster_type, LastEpoch).some
    /\ last.pre.inflation = InflationCustom
    /\ bank.inflation = InflationCustom

\* C5: Uniqueness. No two entries of the cluster's table share a name and no
\* two share a program id, native and builtin-loader entries together.
C5_Uniqueness ==
    \A i, j \in 1..Len(Table) :
        i # j =>
            /\ Table[i].program.name # Table[j].program.name
            /\ Table[i].program.id # Table[j].program.id

\* a bank that holds a whole table with entries of both kinds
C5_Witness ==
    /\ cluster_type = "Devnet"
    /\ Len(Table) = 5
    /\ \E i, j \in 1..Len(Table) :
          Table[i].program.kind = "Native" /\ Table[j].program.kind = "BuiltinLoader"
    /\ bank.programs = Registered(Table)

\* C6: Monotonicity. Read in table order, the start epochs of the cluster's
\* table never decrease, and the first is >= GENESIS_EPOCH.
C6_Monotonicity ==
    /\ Len(Table) > 0 => EpochGe(Table[1].start_epoch, GENESIS_EPOCH)
    /\ \A i \in 1..(Len(Table) - 1) :
          EpochGe(Table[i + 1].start_epoch, Table[i].start_epoch)

\* a table whose start epochs do increase, gone through by the callback
C6_Witness ==
    /\ last.called
    /\ cluster_type = "Devnet"
    /\ \E i \in 1..(Len(Table) - 1) :
          EpochLt(Table[i].start_epoch, Table[i + 1].start_epoch)

\* the builtin loaders of the table that the bank does not hold
UnregisteredLoaders ==
    {p \in Registered(Table) : p.kind = "BuiltinLoader" /\ p \notin bank.programs}

\* the latest invocation ran at epoch 0 on a MainnetBeta bank with no program
MainnetGenesisCall ==
    /\ last.called
    /\ cluster_type = "MainnetBeta"
    /\ LastEpoch = U64(0)
    /\ last.pre.programs = {}

\* C7 as stated: after the callback at epoch 0 on a MainnetBeta bank with no
\* program, inflation is disabled and exactly one builtin loader of the table
\* is not in the bank.
C7_AsStated ==
    MainnetGenesisCall =>
        /\ bank.inflation = InflationDisabled
        /\ Cardinality(UnregisteredLoaders) = 1

\* C7, amended: after the callback at epoch 0 on a MainnetBeta bank with no
\* program, inflation is disabled and both builtin loaders of the table (start
\* epochs 34 and Epoch::MAX) are not in the bank, which holds no program.
C7_MainnetGenesis ==
    MainnetGenesisCall =>
        /\ bank.inflation = InflationDisabled
        /\ Cardinality(UnregisteredLoaders) = 2
        /\ bank.programs = {}

\* a cold start at epoch 0 of a MainnetBeta bank whose inflation was default
C7_Witness ==
    /\ MainnetGenesisCall
    /\ last.initial
    /\ last.pre.inflation = InflationDefault
    /\ bank.inflation = InflationDisabled

\* C8: Sentinel catch-up. After an invocation with initial = true at epoch
\* Epoch::MAX on a MainnetBeta bank, inflation is default and both the loader
\* scheduled at Epoch::MAX (bpf_loader) and the one scheduled at epoch 34 are
\* in the bank.
C8_SentinelCatchUp ==
    (last.called /\ last.initial /\ cluster_type = "MainnetBeta" /\ LastEpoch = EpochMAX) =>
        /\ bank.inflation = InflationDefault
        /\ BuiltinLoader(solana_bpf_loader_program) \in bank.programs
        /\ BuiltinLoader(solana_bpf_loader_deprecated_program) \in bank.programs

\* a cold start at Epoch::MAX of a MainnetBeta bank that held no program and
\* had inflation disabled
C8_Witness ==
    /\ last.called
    /\ last.initial
    /\ cluster_type = "MainnetBeta"
    /\ LastEpoch = EpochMAX
    /\ last.pre.programs = {}
    /\ last.pre.inflation = InflationDisabled
    /\ Cardinality(bank.programs) = 2

\* C9: Testnet toggle sequence. After an invocation with initial = false at
\* epoch 44 on a Testnet bank inflation is default, whatever it was before;
\* and after the invocation that follows it, when that one runs at epoch 45,
\* inflation is still default.
C9_TestnetToggle ==
    cluster_type = "Testnet" =>
        /\ (last.called /\ ~last.initial /\ LastEpoch = U64(44))
               => bank.inflation = InflationDefault
        /\ (last.called /\ prev.called /\ ~prev.initial /\ prev.epoch = U64(44)
                /\ LastEpoch = U64(45))
               => bank.inflation = InflationDefault

\* the call at epoch 45 that follows a live call at epoch 44
C9_Witness ==
    /\ cluster_type = "Testnet"
    /\ last.called
    /\ prev.called
    /\ ~prev.initial
    /\ prev.epoch = U64(44)
    /\ LastEpoch = U64(45)
    /\ bank.inflation = InflationDefault

\* the latest invocation was a cold start at epoch 0 of a Development bank
\* with no program
DevelopmentGenesisCall ==
    /\ last.called
    /\ last.initial
    /\ cluster_type = "Development"
    /\ LastEpoch = U64(0)
    /\ last.pre.programs = {}

\* C10: Development scenario at genesis. After a cold start at epoch 0 of a
\* Development bank with no program, inflation is default and the bank holds
\* exactly the 5 table entries, 3 native programs and 2 builtin loaders, all
\* of start epoch GENESIS_EPOCH.
C10_DevelopmentGenesis ==
    DevelopmentGenesisCall =>
        /\ bank.inflation = InflationDefault
        /\ Len(Table) = 5
        /\ bank.programs = Registered(Table)
        /\ Cardinality(bank.programs) = 5
        /\ Cardinality({p \in bank.programs : p.kind = "Native"}) = 3
        /\ Cardinality({p \in bank.programs : p.kind = "BuiltinLoader"}) = 2
        /\ \A i \in 1..Len(Table) : Table[i].start_epoch = GENESIS_EPOCH

\* a Development cold start at epoch 0 that replaced a disabled inflation
C10_Witness ==
    /\ DevelopmentGenesisCall
    /\ last.pre.inflation = InflationDisabled
    /\ Cardinality(bank.programs) = 5

\* C11: Testnet inflation schedule. What get_inflation returns to an
\* invocation on a Testnet bank is Some(disabled) at epoch 0, Some(default) at
\* epoch 44, Some(disabled) at epoch 68, Some(default) at epoch 74 and None at
\* every other epoch.
C11_TestnetSchedule ==
    (last.called /\ cluster_type = "Testnet") =>
        /\ LastEpoch = U64(0) => last.inflation = Some(InflationDisabled)
        /\ LastEpoch = U64(44) => last.inflation = Some(InflationDefault)
        /\ LastEpoch = U64(68) => last.inflation = Some(InflationDisabled)
        /\ LastEpoch = U64(74) => last.inflation = Some(InflationDefault)
        /\ LastEpoch \notin {U64(0), U64(44), U64(68), U64(74)}
               => last.inflation = None

\* the invocation at epoch 68 that follows one at epoch 44: the lookup gave
\* the disabled policy and the bank went from default to disabled
C11_Witness ==
    /\ last.called
    /\ prev.called
    /\ cluster_type = "Testnet"
    /\ prev.epoch = U64(44)
    /\ LastEpoch = U64(68)
    /\ last.pre.inflation = InflationDefault
    /\ last.inflation = Some(InflationDisabled)
    /\ bank.inflation = InflationDisabled

\* C12: MainnetBeta inflation schedule. What get_inflation returns to an
\* invocation on a MainnetBeta bank is Some(disabled) at epoch 0,
\* Some(default) at Epoch::MAX and None at every epoch in between.
C12_MainnetSchedule ==
    (last.called /\ cluster_type = "MainnetBeta") =>
        /\ LastEpoch = U64(0) => last.inflation = Some(InflationDisabled)
        /\ LastEpoch = EpochMAX => last.inflation = Some(InflationDefault)
        /\ (EpochLt(U64(0), LastEpoch) /\ EpochLt(LastEpoch, EpochMAX))
               => last.inflation = None

\* the invocation at Epoch::MAX that follows one at Epoch::MAX - 1, where the
\* bank still had the disabled policy
C12_Witness ==
    /\ last.called
    /\ prev.called
    /\ cluster_type = "MainnetBeta"
    /\ EpochLt(prev.epoch, EpochMAX)
    /\ NextEpoch(prev.epoch) = EpochMAX
    /\ LastEpoch = EpochMAX
    /\ last.pre.inflation = InflationDisabled
    /\ last.inflation = Some(InflationDefault)

\* C13: Development and Devnet inflation schedule. What get_inflation returns
\* to an invocation on a Development or a Devnet bank is Some(default) at
\* epoch 0 and None at every later epoch.
C13_DevSchedule ==
    (last.called /\ cluster_type \in {"Development", "Devnet"}) =>
        /\ LastEpoch = U64(0) => last.inflation = Some(InflationDefault)
        /\ EpochLt(U64(0), LastEpoch) => last.inflation = None

\* a Devnet invocation at epoch 1 that follows the one at epoch 0
C13_Witness ==
    /\ last.called
    /\ prev.called
    /\ cluster_type = "Devnet"
    /\ prev.epoch = U64(0)
    /\ LastEpoch = U64(1)
    /\ last.inflation = None
    /\ bank.inflation = InflationDefault

\* the (name, id) pairs of the entries of the table that are Native and start
\* at GENESIS_EPOCH, in table order
GenesisNatives ==
    LET picked == SelectSeq(Table, LAMBDA e :
                     e.program.kind = "Native" /\ e.start_epoch = GENESIS_EPOCH)
    IN  [i \in 1..Len(picked) |-> <<picked[i].program.name, picked[i].program.id>>]

\* C14: Genesis native filter. get_native_programs_for_genesis of the cluster
\* is the sequence, in table order, of the (name, id) pairs of the Native
\* entries of the table whose start epoch is GENESIS_EPOCH; none of its
\* elements is a builtin loader or an entry of a later start epoch; it has 3
\* elements for Development and Devnet and none for Testnet and MainnetBeta.
C14_GenesisNativeFilter ==
    LET natives == get_native_programs_for_genesis(cluster_type)
    IN  /\ natives = GenesisNatives
        /\ \A i \in 1..Len(natives), j \in 1..Len(Table) :
              (Table[j].program.kind = "BuiltinLoader"
                    \/ Table[j].start_epoch # GENESIS_EPOCH)
                 => natives[i] # <<Table[j].program.name, Table[j].program.id>>
        /\ Len(natives) = IF cluster_type \in {"Development", "Devnet"} THEN 3 ELSE 0

\* Devnet, whose table has a builtin loader at GENESIS_EPOCH and one later:
\* the three native programs come out, in table order
C14_Witness ==
    /\ cluster_type = "Devnet"
    /\ get_native_programs_for_genesis(cluster_type) =
          << <<solana_vest_program.name, solana_vest_program.id>>,
             <<solana_budget_program.name, solana_budget_program.id>>,
             <<solana_exchange_program.name, solana_exchange_program.id>> >>
    /\ Table[1].program.kind = "BuiltinLoader"
    /\ Table[1].start_epoch = GENESIS_EPOCH

\* C16: No premature activation. In every state reached from a bank with no
\* program by invocations of the callback, with any mix of flags, at
\* non-decreasing epochs, every table program the bank holds has
\* start_epoch <= the bank's epoch.
C16_NoPrematureActivation ==
    \A i \in 1..Len(Table) :
        Table[i].program \in bank.programs
            => EpochGe(bank.epoch, Table[i].start_epoch)

\* a Testnet bank that was cold-started before epoch 89 and then entered
\* epoch 89 live: both loaders are held, each at or after its start epoch
C16_Witness ==
    /\ last.called
    /\ prev.called
    /\ prev.initial
    /\ ~last.initial
    /\ cluster_type = "Testnet"
    /\ EpochLt(prev.epoch, U64(89))
    /\ bank.epoch = U64(89)
    /\ Cardinality(bank.programs) = 2

\* the bank a single cold start at the bank's epoch leaves, from no program
ColdStart ==
    entered_epoch_callback(cluster_type, [bank EXCEPT !.programs = {}], TRUE)

\* C17: Live replay equals cold start. When a bank that had no program has
\* been driven by invocations with initial = false only, one at each explored
\* epoch in order from epoch 0 up to E, it holds the same programs as one
\* invocation with initial = true at epoch E leaves on a bank with no
\* program: all table programs with start_epoch <= E.
C17_LiveReplayEqualsColdStart ==
    run.live_replay =>
        /\ bank.programs = ColdStart.programs
        /\ bank.programs =
               TablePrograms(LAMBDA start_epoch : EpochGe(bank.epoch, start_epoch))

\* a live replay of Devnet that has gone from epoch 0 through epoch 400 and
\* picked up the genesis programs first and the bpf loader last
C17_Witness ==
    /\ run.live_replay
    /\ cluster_type = "Devnet"
    /\ bank.epoch = U64(400)
    /\ BuiltinLoader(solana_bpf_loader_program) \notin last.pre.programs
    /\ Cardinality(last.pre.programs) = 4
    /\ Cardinality(bank.programs) = 5

\* C18: The inflation step ignores the initial flag. The inflation an
\* invocation leaves is the one an invocation with the other flag leaves on
\* the same bank; and a cold start at an epoch where get_inflation is None
\* leaves the inflation it found, not that of an earlier breakpoint.
C18_InflationIgnoresInitial ==
    last.called =>
        /\ bank.inflation =
               entered_epoch_callback(cluster_type, last.pre, ~last.initial).inflation
        /\ (last.initial /\ ~last.inflation.some)
               => bank.inflation = last.pre.inflation

\* a Testnet cold start at epoch 45 of a bank whose inflation is disabled: the
\* breakpoint of epoch 44 (default) is not restored
C18_Witness ==
    /\ last.called
    /\ last.initial
    /\ cluster_type = "Testnet"
    /\ LastEpoch = U64(45)
    /\ last.inflation = None
    /\ last.pre.inflation = InflationDisabled
    /\ bank.inflation = InflationDisabled

\* C19: Production sentinel holds until Epoch::MAX. On a MainnetBeta bank
\* whose first invocation ran at epoch 0 with no program, and which has since
\* been driven by invocations with any flag at non-decreasing epochs all below
\* Epoch::MAX, inflation is disabled and the bpf_loader scheduled at
\* Epoch::MAX is not in the bank.
C19_SentinelHolds ==
    (cluster_type = "MainnetBeta" /\ run.from_genesis /\ EpochLt(bank.epoch, EpochMAX)) =>
        /\ bank.inflation = InflationDisabled
        /\ BuiltinLoader(solana_bpf_loader_program) \notin bank.programs

\* a MainnetBeta bank started at epoch 0 and cold-started again at
\* Epoch::MAX - 1: the deprecated loader is held, the bpf_loader is not
C19_Witness ==
    /\ cluster_type = "MainnetBeta"
    /\ run.from_genesis
    /\ last.initial
    /\ EpochLt(bank.epoch, EpochMAX)
    /\ NextEpoch(bank.epoch) = EpochMAX
    /\ bank.programs = {BuiltinLoader(solana_bpf_loader_deprecated_program)}
    /\ bank.inflation = InflationDisabled

=============================================================================
